---- MODULE Spec2Model ----
EXTENDS Integers, Naturals, Sequences, FiniteSets, TLC

\* Verification model of the comparative genomics pipeline driver
\* (async_main) and of its first three stages.

VARIABLES
    \* ---- async_main ----
    pc,            \* position of async_main
    constructed,   \* clients whose constructor returned
    closed,        \* number of close() calls per client
    cleanupErrors, \* clients whose close() raised
    ret,           \* value returned by async_main (-1: not yet returned)
    invoked,       \* sequence of stages invoked so far
    res,           \* results of the first three stages ("true", "false", "none")
    events,        \* outcomes observed in the later stages
    \* ---- align_sequences_msa / generate_phylogenetic_trees ----
    stg,           \* which of the two stage functions runs (chosen when it starts)
    spc,           \* position inside the stage function
    startOk,       \* mkdir of the output directory succeeded
    nFiles,        \* number of *.fasta files listed
    gi,            \* index of the file being processed
    lastSubmit,    \* value returned by submit_job for the current file
    status,        \* local variable status of the poll loop
    lastPoll,      \* value of the last check_status call ("RAISE": raised)
    pollCount,     \* local variable poll_count
    checkCalls,    \* check_status calls for the current job
    getCalls,      \* get_result / get_phylogenetic_tree calls for the job
    slept,         \* initial_wait sleep done for the current job
    lastResult,    \* payload returned by get_result for the current job
    outcome,       \* per file: how its processing ended
    artifact,      \* per file: output artifact written
    successes,     \* successful_alignments / successful_trees
    stageRet,      \* value returned by the stage function
    \* ---- collect_orthologous_sequences ----
    cpc,           \* position inside collect_orthologous_sequences
    cfg,           \* configuration as loaded from genes_to_proteins.json
    nCG,           \* number of genes in the configuration
    cgi,           \* index of the current gene
    nOrth,         \* length of the current gene's ortholog list
    coi,           \* index of the last processed ortholog
    orth,          \* record of the last processed ortholog
    succ,          \* successful_retrievals of the current gene
    acc,           \* all_orthologs_as_fasta: <<gene, ortholog, source>> parts
    got,           \* per ortholog of the current gene: source of its sequence
    written,       \* per gene: content of the FASTA file written (<<>>: none)
    nLookups,      \* UniProt and NCBI lookups made
    writeErr,      \* a FASTA file write raised OSError
    colRet,        \* value returned by collect_orthologous_sequences
    \* ---- validate_genes_config ----
    vcfg,          \* configuration passed to validate_genes_config
    vres,          \* its outcome ("true", "false", "raise"; "unset" before)
    \* ---- client fetch operations ----
    call,          \* the client operation called and its environment
    cout,          \* its outcome
    \* ---- compute_conservation_scores ----
    cfile,         \* the MSA path passed in
    cret,          \* its return value ("path", "None"; "unset" before)
    consOut,       \* the conservation CSV written
    cret2,         \* return value of a second run on the same path
    consOut2,      \* the CSV written by that second run
    \* ---- compute_conservation_for_all_msas ----
    bfiles,        \* the *.fasta files listed in the MSA directory
    bi,            \* index of the next file of the loop
    bres,          \* per processed file: return value and CSV written
    bsucc,         \* success_count
    bret,          \* value returned ("true", "false"; "unset" before)
    \* ---- VariantPlotter._get_dynamic_variant_classifications ----
    vrows,         \* rows of vars_df: parsed position and description
    vcls,          \* per category: the positions classified into it
    clsDone,        \* the classification has been computed
    \* ---- VariantPlotter._parse_variant_positions ----
    prows,         \* rows of vars_df: position value and row identity
    pout,           \* result: the kept rows with parsed_position, or a raise
    \* ---- async_main: per-gene files ----
    ppc,           \* current step of the run
    ptodo,         \* genes / files the current step has still to process
    cfgG,          \* genes of the configuration
    orthF,         \* genes with an ortholog FASTA file on disk
    wNow,          \* genes whose ortholog file this run's step 1 wrote
    msaF,          \* genes with an MSA file on disk
    consF,         \* genes with a conservation CSV on disk
    alnSub,        \* genes submit_job was called for in step 2
    treeSub,       \* genes submit_job was called for in step 3
    overlays,      \* genes whose variant overlay plot was produced
    plog,          \* events of the run, in order
    psucc,          \* successes of the current step 2 / 3
    \* ---- variant overlay plot ----
    ovrows,        \* rows of vars_df (parsed position, description)
    ovcfg,         \* the PlotConfig fields the overlay reads
    ovtiers,       \* positions drawn in each highlighting tier
    ovDone,        \* the overlay has been drawn
    ovconsv        \* values of consv_df['Position']

drvVars == <<pc, constructed, closed, cleanupErrors, ret, invoked, res, events>>
stVars == <<stg, spc, startOk, nFiles, gi, lastSubmit, status, lastPoll,
            pollCount, checkCalls, getCalls, slept, lastResult, outcome,
            artifact, successes, stageRet>>
colVars == <<cpc, cfg, nCG, cgi, nOrth, coi, orth, succ, acc, got, written,
             nLookups, writeErr, colRet>>
valVars == <<vcfg, vres>>
cliVars == <<call, cout>>
consVars == <<cfile, cret, consOut>>
runVars == <<cret2, consOut2>>
ovVars == <<ovrows, ovcfg, ovtiers, ovDone, ovconsv>>
pipeVars == <<ppc, ptodo, cfgG, orthF, wNow, msaF, consF, alnSub, treeSub, overlays, plog, psucc>>
parseVars == <<prows, pout>>
clsVars == <<vrows, vcls, clsDone>>
batchVars == <<bfiles, bi, bres, bsucc, bret>>

\* Client construction order in async_main
ClientOrder == <<"uniprot", "ncbi", "ebi", "pdb">>
Clients == {"uniprot", "ncbi", "ebi", "pdb"}
\* Order of the stages of async_main
StageOrder == <<"collect", "msa", "trees", "clinvar", "uvariants",
                "conservation", "viz", "vplots", "clinvarplot", "domains">>
FirstStages == {"collect", "msa", "trees"}
\* The finally block closes clients in this order
CleanupPcs == {"close_ebi", "close_uniprot", "close_ncbi", "close_pdb"}

DrvInit ==
    /\ pc = "init"
    /\ constructed = {}
    /\ closed = [c \in Clients |-> 0]
    /\ cleanupErrors = {}
    /\ ret = -1
    /\ invoked = <<>>
    /\ res = [s \in FirstStages |-> "none"]
    /\ events = {}

\* return r inside the try: the finally block runs next
Return(r) == /\ ret' = r /\ pc' = "close_ebi"

\* Initialise clients: each constructor may raise, caught by the outer
\* "except Exception" which returns 1.
InitClients ==
    /\ pc = "init"
    /\ \E k \in 0..4 :
         /\ constructed' = {ClientOrder[i] : i \in 1..k}
         /\ IF k = 4 THEN pc' = "collect" /\ UNCHANGED ret
                     ELSE Return(1)
    /\ UNCHANGED <<closed, cleanupErrors, invoked, res, events>>

\* Steps 1-3: "if not await stage(...): return 1"
\* Mutant: the stage result is ignored
RunFirstStageNoAbort(s, next) ==
    /\ pc = s
    /\ \E r \in BOOLEAN :
         /\ invoked' = Append(invoked, s)
         /\ res' = [res EXCEPT ![s] = IF r THEN "true" ELSE "false"]
         /\ pc' = next /\ UNCHANGED ret
    /\ UNCHANGED <<constructed, closed, cleanupErrors, events>>

RunFirstStage(s, next) ==
    /\ pc = s
    /\ \E r \in BOOLEAN :
         /\ invoked' = Append(invoked, s)
         /\ res' = [res EXCEPT ![s] = IF r THEN "true" ELSE "false"]
         /\ IF r THEN pc' = next /\ UNCHANGED ret
                 ELSE Return(1)
    /\ UNCHANGED <<constructed, closed, cleanupErrors, events>>

CollectStep == RunFirstStage("collect", "msa")
MsaStep == RunFirstStage("msa", "trees")
TreesStep == RunFirstStage("trees", "clinvar")

FatalLater == {"clinvarClientRaise", "uvariantsRaise", "vizRaise",
               "vplotCfgMissing", "clinvarPlotRaise"}

\* Step 4: ClinVarClient() may raise (outer except, return 1); the config
\* is re-read (None when missing or unreadable); per-gene fetch errors are
\* caught inside the loop.
ClinvarStep ==
    /\ pc = "clinvar"
    /\ invoked' = Append(invoked, "clinvar")
    /\ \E o \in {"ok", "clinvarClientRaise", "cfg4Missing", "clinvarGeneFail"} :
         /\ events' = IF o = "ok" THEN events ELSE events \cup {o}
         /\ IF o = "clinvarClientRaise" THEN Return(1)
                                         ELSE pc' = "uvariants" /\ UNCHANGED ret
    /\ UNCHANGED <<constructed, closed, cleanupErrors, res>>

\* Step 5 (variants): genes_to_proteins.items() raises on the None left by a
\* failed re-read in step 4 and the enclosing except returns 1; per-gene
\* errors are counted and logged.
UVariantsStep ==
    /\ pc = "uvariants"
    /\ invoked' = Append(invoked, "uvariants")
    /\ IF "cfg4Missing" \in events
         THEN /\ events' = events \cup {"uvariantsRaise"}
              /\ Return(1)
         ELSE /\ \E o \in {"ok", "variantGeneFail"} :
                   events' = IF o = "ok" THEN events ELSE events \cup {o}
              /\ pc' = "conservation" /\ UNCHANGED ret
    /\ UNCHANGED <<constructed, closed, cleanupErrors, res>>

\* A later step whose try block returns 1 when its body raises
\* (steps 5b conservation, 6 visualizations, 8 ClinVar comparison plot).
RaisingStep(s, raiseEv, next) ==
    /\ pc = s
    /\ invoked' = Append(invoked, s)
    /\ \E raises \in BOOLEAN :
         IF raises THEN /\ events' = events \cup {raiseEv}
                        /\ Return(1)
                   ELSE /\ pc' = next /\ UNCHANGED <<ret, events>>
    /\ UNCHANGED <<constructed, closed, cleanupErrors, res>>

\* Step 5: compute_conservation_for_all_msas catches every Exception itself
\* and its return value is ignored, so the step always continues
ConservationStep ==
    /\ pc = "conservation"
    /\ invoked' = Append(invoked, "conservation")
    /\ pc' = "viz"
    /\ UNCHANGED <<constructed, closed, cleanupErrors, res, ret, events>>
VizStep == RaisingStep("viz", "vizRaise", "vplots")

\* Step 7: config re-read; "if not genes_to_proteins: return 1"; per-gene
\* plotting errors (and missing CSVs) are caught inside the loop.
VPlotsStep ==
    /\ pc = "vplots"
    /\ invoked' = Append(invoked, "vplots")
    /\ \E o \in {"ok", "vplotCfgMissing", "vplotGeneFail"} :
         /\ events' = IF o = "ok" THEN events ELSE events \cup {o}
         /\ IF o = "vplotCfgMissing" THEN Return(1)
                                      ELSE pc' = "clinvarplot" /\ UNCHANGED ret
    /\ UNCHANGED <<constructed, closed, cleanupErrors, res>>

ClinvarPlotStep == RaisingStep("clinvarplot", "clinvarPlotRaise", "domains")

\* Step 9: failures are logged only ("Don't return 1 here"); then return 0.
DomainsStep ==
    /\ pc = "domains"
    /\ invoked' = Append(invoked, "domains")
    /\ \E o \in {"ok", "domainFail"} :
         events' = IF o = "ok" THEN events ELSE events \cup {o}
    /\ Return(0)
    /\ UNCHANGED <<constructed, closed, cleanupErrors, res>>

\* Mutant: a raising close() ends the cleanup
CloseClientStopOnError(c, next) ==
    /\ pc = "close_" \o c
    /\ IF c \in constructed
         THEN /\ closed' = [closed EXCEPT ![c] = @ + 1]
              /\ \E raises \in BOOLEAN :
                   /\ cleanupErrors' = IF raises THEN cleanupErrors \cup {c}
                                                 ELSE cleanupErrors
                   /\ pc' = IF raises THEN "done" ELSE next
         ELSE /\ UNCHANGED <<closed, cleanupErrors>>
              /\ pc' = next
    /\ UNCHANGED <<constructed, ret, invoked, res, events>>

\* finally: "if client: await client.close()" in its own try/except that
\* records the error; the return value of the try block is kept.
CloseClient(c, next) ==
    /\ pc = "close_" \o c
    /\ IF c \in constructed
         THEN /\ closed' = [closed EXCEPT ![c] = @ + 1]
              /\ \E raises \in BOOLEAN :
                   cleanupErrors' = IF raises THEN cleanupErrors \cup {c}
                                              ELSE cleanupErrors
         ELSE UNCHANGED <<closed, cleanupErrors>>
    /\ pc' = next
    /\ UNCHANGED <<constructed, ret, invoked, res, events>>

CloseEbi == CloseClient("ebi", "close_uniprot")
CloseUniprot == CloseClient("uniprot", "close_ncbi")
CloseNcbi == CloseClient("ncbi", "close_pdb")
ClosePdb == CloseClient("pdb", "done")

DrvNext ==
    \/ InitClients
    \/ CollectStep \/ MsaStep \/ TreesStep
    \/ ClinvarStep \/ UVariantsStep \/ ConservationStep \/ VizStep
    \/ VPlotsStep \/ ClinvarPlotStep \/ DomainsStep
    \/ CloseEbi \/ CloseUniprot \/ CloseNcbi \/ ClosePdb


\* ------------------------------------------------------------------
\* align_sequences_msa / generate_phylogenetic_trees
\* ------------------------------------------------------------------

\* Number of *.fasta files in the orthologs directory
NumGenes == 2
\* max_polls of align_sequences_msa
MsaMaxPolls == 60
\* max_polls of generate_phylogenetic_trees
TreeMaxPolls == 120

MaxPolls(st) == IF st = "msa" THEN MsaMaxPolls ELSE TreeMaxPolls

\* Values check_status can return ("NONE" is Python None, returned on a
\* transport error; "WEIRD" is any other string); "RAISE": the call raised.
Statuses == {"FINISHED", "ERROR", "FAILURE", "RUNNING", "PENDING", "QUEUED",
             "WEIRD", "NONE", "RAISE"}
Terminal == {"FINISHED", "ERROR", "FAILURE"}
\* Values submit_job can return / do
SubmitResults == {"job", "none", "empty", "raise"}
\* Values get_result can return ("blank": whitespace only) / do
GetResults == {"payload", "blank", "empty", "none", "raise"}
\* Contents of a FASTA file as read ("unreadable": read fails)
FileKinds == {"ok", "blank", "unreadable"}
Genes == 1..NumGenes

\* Python truthiness of a value of get_result
Truthy(r) == r \in {"payload", "blank"}

\* Mutant: off-by-one poll bound
PollLoopCondLe(st, s, n) ==
    IF st = "msa" THEN s \notin Terminal /\ n <= MaxPolls(st)
                  ELSE n <= MaxPolls(st)

\* while condition of the poll loop
PollLoopCond(st, s, n) ==
    IF st = "msa" THEN s \notin Terminal /\ n < MaxPolls(st)
                  ELSE n < MaxPolls(st)

\* Mutant: only ERROR is a failure status
PollBranchErrorOnly(st, s) ==
    IF s = "FINISHED" THEN "fetch"
    ELSE IF s = "ERROR" THEN "fail"
    ELSE "retry"

\* Mutant: the tree stage gives up on an unknown status
PollBranchUnknownFails(st, s) ==
    IF s = "FINISHED" THEN "fetch"
    ELSE IF s \in {"ERROR", "FAILURE"} THEN "fail"
    ELSE IF st = "tree" /\ s \notin {"RUNNING", "PENDING", "QUEUED"} THEN "fail"
    ELSE "retry"

\* Branch taken by the loop body on the status s returned by check_status
PollBranch(st, s) ==
    IF s = "FINISHED" THEN "fetch"
    ELSE IF s \in {"ERROR", "FAILURE"} THEN "fail"
    ELSE "retry"

\* Whether a fetched result is written: "if result:" for the alignment,
\* "if tree and tree.strip():" for the tree
ResultAccepted(st, r) ==
    IF st = "msa" THEN Truthy(r) ELSE r = "payload"

ResetJob ==
    /\ lastSubmit' = "unset" /\ status' = "" /\ lastPoll' = "unset"
    /\ pollCount' = 0 /\ checkCalls' = 0 /\ getCalls' = 0
    /\ slept' = FALSE /\ lastResult' = "unset"

StInit ==
    /\ stg = "msa"
    /\ spc = "start"
    /\ startOk = FALSE
    /\ nFiles = 0
    /\ gi = 1
    /\ lastSubmit = "unset" /\ status = "" /\ lastPoll = "unset"
    /\ pollCount = 0 /\ checkCalls = 0 /\ getCalls = 0
    /\ slept = FALSE /\ lastResult = "unset"
    /\ outcome = [g \in Genes |-> "pending"]
    /\ artifact = [g \in Genes |-> FALSE]
    /\ successes = 0
    /\ stageRet = FALSE

\* mkdir of the output directory (may raise: outer except, return False),
\* then glob; no file: return False
StageStart ==
    /\ spc = "start"
    /\ stg' \in {"msa", "tree"}
    /\ \E ok \in BOOLEAN, n \in 0..NumGenes :
         /\ startOk' = ok
         /\ nFiles' = IF ok THEN n ELSE 0
         /\ IF ok /\ n > 0 THEN spc' = "read" /\ UNCHANGED stageRet
                           ELSE spc' = "returned" /\ stageRet' = FALSE
    /\ UNCHANGED <<gi, lastSubmit, status, lastPoll, pollCount,
                   checkCalls, getCalls, slept, lastResult, outcome,
                   artifact, successes>>

EndFile(o) ==
    /\ outcome' = [outcome EXCEPT ![gi] = o]
    /\ spc' = "endgene"

\* Read the file. The MSA stage reads through open_file_return_as_str
\* (None when unreadable); the tree stage uses open(...).read(), which
\* raises on an unreadable file and lands in the per-file except. An empty,
\* blank or (MSA stage) unreadable file is logged and skipped.
ReadFile ==
    /\ spc = "read"
    /\ \E k \in FileKinds :
         IF k = "ok" THEN spc' = "submit" /\ UNCHANGED outcome
         ELSE IF k = "unreadable" /\ stg = "tree" THEN EndFile("exception")
         ELSE EndFile("badfile")
    /\ UNCHANGED <<stg, startOk, nFiles, gi, lastSubmit, status, lastPoll,
                   pollCount, checkCalls, getCalls, slept, lastResult,
                   artifact, successes, stageRet>>

\* Mutant: "if job_id is None: continue"
SubmitJobNoneOnly ==
    /\ spc = "submit"
    /\ \E r \in SubmitResults :
         /\ lastSubmit' = r
         /\ IF r = "raise" THEN EndFile("exception")
            ELSE IF r = "none" THEN EndFile("nosubmit")
            ELSE /\ spc' = IF stg = "tree" THEN "wait" ELSE "poll"
                 /\ UNCHANGED outcome
    /\ UNCHANGED <<stg, startOk, nFiles, gi, status, lastPoll, pollCount,
                   checkCalls, getCalls, slept, lastResult, artifact,
                   successes, stageRet>>

\* Mutant: submission returns at once and the job is polled later
SubmitJobDetached ==
    /\ spc = "submit"
    /\ \E r \in SubmitResults :
         /\ lastSubmit' = r
         /\ IF r = "raise" THEN EndFile("exception")
            ELSE IF r \in {"none", "empty"} THEN EndFile("nosubmit")
            ELSE /\ spc' = "endgene"
                 /\ UNCHANGED outcome
    /\ UNCHANGED <<stg, startOk, nFiles, gi, status, lastPoll, pollCount,
                   checkCalls, getCalls, slept, lastResult, artifact,
                   successes, stageRet>>

\* job_id = await ebi_client.submit_job(...); "if not job_id: continue"
SubmitJob ==
    /\ spc = "submit"
    /\ \E r \in SubmitResults :
         /\ lastSubmit' = r
         /\ IF r = "raise" THEN EndFile("exception")
            ELSE IF r \in {"none", "empty"} THEN EndFile("nosubmit")
            ELSE /\ spc' = IF stg = "tree" THEN "wait" ELSE "poll"
                 /\ UNCHANGED outcome
    /\ UNCHANGED <<stg, startOk, nFiles, gi, status, lastPoll, pollCount,
                   checkCalls, getCalls, slept, lastResult, artifact,
                   successes, stageRet>>

\* Tree stage: await asyncio.sleep(initial_wait) before the first poll
InitialWait ==
    /\ spc = "wait"
    /\ slept' = TRUE
    /\ spc' = "poll"
    /\ UNCHANGED <<stg, startOk, nFiles, gi, lastSubmit, status, lastPoll,
                   pollCount, checkCalls, getCalls, lastResult, outcome,
                   artifact, successes, stageRet>>

\* One iteration of the poll loop body
Poll ==
    /\ spc = "poll"
    /\ PollLoopCond(stg, status, pollCount)
    /\ checkCalls' = checkCalls + 1
    /\ \E s \in Statuses :
         /\ lastPoll' = s
         /\ IF s = "RAISE"
              THEN /\ EndFile("exception")
                   /\ UNCHANGED <<status, pollCount>>
              ELSE /\ status' = s
                   /\ CASE PollBranch(stg, s) = "fetch" ->
                             spc' = "fetch" /\ UNCHANGED <<pollCount, outcome>>
                        [] PollBranch(stg, s) = "fail" ->
                             EndFile("error") /\ UNCHANGED pollCount
                        [] OTHER ->
                             pollCount' = pollCount + 1 /\ UNCHANGED <<spc, outcome>>
    /\ UNCHANGED <<stg, startOk, nFiles, gi, lastSubmit, getCalls, slept,
                   lastResult, artifact, successes, stageRet>>

\* The while condition fails: the loop ends (timeout when
\* poll_count >= max_polls, which is only logged)
PollLoopExit ==
    /\ spc = "poll"
    /\ ~PollLoopCond(stg, status, pollCount)
    /\ EndFile("timeout")
    /\ UNCHANGED <<stg, startOk, nFiles, gi, lastSubmit, status, lastPoll,
                   pollCount, checkCalls, getCalls, slept, lastResult,
                   artifact, successes, stageRet>>

\* FINISHED: fetch the result, write it if accepted, then break; an
\* exception while fetching or writing is caught by the loop's except and
\* also breaks.
FetchResult ==
    /\ spc = "fetch"
    /\ getCalls' = getCalls + 1
    /\ \E r \in GetResults, writeOk \in BOOLEAN :
         /\ lastResult' = r
         /\ IF r = "raise" THEN EndFile("exception") /\ UNCHANGED <<artifact, successes>>
            ELSE IF ~ResultAccepted(stg, r)
              THEN EndFile("blank") /\ UNCHANGED <<artifact, successes>>
            ELSE IF writeOk
              THEN /\ artifact' = [artifact EXCEPT ![gi] = TRUE]
                   /\ successes' = successes + 1
                   /\ EndFile("ok")
              ELSE EndFile("exception") /\ UNCHANGED <<artifact, successes>>
    /\ UNCHANGED <<stg, startOk, nFiles, gi, lastSubmit, status, lastPoll,
                   pollCount, checkCalls, slept, stageRet>>

\* Mutant: an exception for one file aborts the loop
NextFileAbortOnException ==
    /\ spc = "endgene"
    /\ IF gi < nFiles /\ outcome[gi] # "exception"
         THEN /\ gi' = gi + 1
              /\ spc' = "read"
              /\ ResetJob
         ELSE /\ spc' = "finish"
              /\ UNCHANGED <<gi, lastSubmit, status, lastPoll, pollCount,
                             checkCalls, getCalls, slept, lastResult>>
    /\ UNCHANGED <<stg, startOk, nFiles, outcome, artifact, successes, stageRet>>

\* for file_path in fasta_files: go on with the next file
NextFile ==
    /\ spc = "endgene"
    /\ IF gi < nFiles
         THEN /\ gi' = gi + 1
              /\ spc' = "read"
              /\ ResetJob
         ELSE /\ spc' = "finish"
              /\ UNCHANGED <<gi, lastSubmit, status, lastPoll, pollCount,
                             checkCalls, getCalls, slept, lastResult>>
    /\ UNCHANGED <<stg, startOk, nFiles, outcome, artifact, successes, stageRet>>

\* "if successful_... == 0: return False" / "return True"
StageFinish ==
    /\ spc = "finish"
    /\ stageRet' = (successes > 0)
    /\ spc' = "returned"
    /\ UNCHANGED <<stg, startOk, nFiles, gi, lastSubmit, status, lastPoll,
                   pollCount, checkCalls, getCalls, slept, lastResult,
                   outcome, artifact, successes>>

StNext ==
    \/ StageStart \/ ReadFile \/ SubmitJob \/ InitialWait \/ Poll
    \/ PollLoopExit \/ FetchResult \/ NextFile \/ StageFinish


\* ------------------------------------------------------------------
\* validate_genes_config
\* ------------------------------------------------------------------

\* A configuration is [kind, genes]: kind "missing" (the JSON file could
\* not be loaded: None), "dict" or "list" (a JSON array); genes is the
\* sequence of (gene name, ortholog list) entries. A gene is
\* [name, isList, orths]; an ortholog is [isDict, species, uni, ent].
\* Gene names: "ok" (a non-blank string), "empty", "ws" (blank), "num" (not
\* a string). Species: "absent", "ok", "blank", "num". Id fields: "absent",
\* "empty" (""), "ws" (" "), "id", "null" (JSON null).

\* isinstance(gene_name, str) and gene_name.strip()
NameOk(n) == n = "ok"
\* "species" in ortholog, a string, non-empty after strip
SpeciesOk(sp) == sp = "ok"
\* ortholog.get(key, "") is a str (otherwise .strip() raises)
IsStrOrAbsent(v) == v \in {"absent", "empty", "ws", "id"}
\* ortholog.get(key, "").strip() is empty
IdBlank(v) == v \in {"absent", "empty", "ws"}

\* Ortholog loop of one gene: "raise" when .strip() raises, else whether
\* every ortholog is valid ("true"/"false")
RECURSIVE ValidateOrths(_, _, _)
ValidateOrths(os, i, valid) ==
    IF i > Len(os) THEN IF valid THEN "true" ELSE "false"
    ELSE LET o == os[i] IN
         IF ~o.isDict THEN ValidateOrths(os, i + 1, FALSE)
         ELSE IF ~IsStrOrAbsent(o.uni) \/ ~IsStrOrAbsent(o.ent) THEN "raise"
         ELSE ValidateOrths(os, i + 1,
                            valid /\ SpeciesOk(o.species)
                                  /\ ~(IdBlank(o.uni) /\ IdBlank(o.ent)))

\* Gene loop: an invalid entry sets valid = False and continues
RECURSIVE ValidateGenes(_, _, _)
ValidateGenes(gs, i, valid) ==
    IF i > Len(gs) THEN IF valid THEN "true" ELSE "false"
    ELSE LET g == gs[i] IN
         IF ~NameOk(g.name) \/ ~g.isList \/ Len(g.orths) = 0
           THEN ValidateGenes(gs, i + 1, FALSE)
           ELSE LET r == ValidateOrths(g.orths, 1, TRUE) IN
                IF r = "raise" THEN "raise"
                ELSE ValidateGenes(gs, i + 1, valid /\ r = "true")

\* validate_genes_config(config_data): "true", "false" or "raise"
Validate(c) ==
    IF c.kind # "dict" THEN "false"
    ELSE IF Len(c.genes) = 0 THEN "false"
    ELSE ValidateGenes(c.genes, 1, TRUE)

\* ------------------------------------------------------------------
\* collect_orthologous_sequences
\* ------------------------------------------------------------------

\* Genes of a generated configuration
NumCollectGenes == 1
\* Orthologs per gene of a generated configuration
NumOrthologs == 2
\* Genes of the partial-success example configurations
ExampleGenes == 3

MaxCGenes == IF NumCollectGenes > ExampleGenes THEN NumCollectGenes ELSE ExampleGenes
CGenes == 1..MaxCGenes
\* Id values of generated orthologs
IdValues == {"absent", "empty", "ws", "id"}
\* Outcome of a sequence lookup: a sequence, "" or an exception
LookupResults == {"seq", "empty", "raise"}

\* "key" in ortholog and ortholog[key] != ""
IdPresent(v) == v \notin {"absent", "empty"}
\* ortholog.get(key, "").strip() is non-empty
IdNonBlank(v) == IsStrOrAbsent(v) /\ ~IdBlank(v)

\* Python truthiness of the loaded configuration (None, {} and [] are falsy)
LoadedFalsy(c) == c.kind = "missing" \/ Len(c.genes) = 0

MkOrth(u, e) == [isDict |-> TRUE, species |-> "ok", uni |-> u, ent |-> e]
MkGene(os) == [name |-> "ok", isList |-> TRUE, orths |-> os]
MkConfig(gs) == [kind |-> "dict", genes |-> gs]
MissingConfig == [kind |-> "missing", genes |-> <<>>]
SeqsUpTo(S, k) == UNION {[1..n -> S] : n \in 1..k}

CollectOrths == {MkOrth(u, e) : u \in IdValues, e \in IdValues \ {"ws"}}
GeneratedConfigs ==
    UNION {{MkConfig([i \in 1..n |-> MkGene(ls[i])]) :
               ls \in [1..n -> SeqsUpTo(CollectOrths, NumOrthologs)]} :
           n \in 1..NumCollectGenes}
\* Genes with one ortholog: either a UniProt id or two empty ids
ExampleConfigs ==
    {MkConfig([i \in 1..ExampleGenes |-> MkGene(<<os[i]>>)]) :
        os \in [1..ExampleGenes -> {MkOrth("id", "absent"), MkOrth("empty", "empty")}]}
CollectConfigs ==
    {MissingConfig, MkConfig(<<>>)} \cup GeneratedConfigs \cup ExampleConfigs

\* ------------------------------------------------------------------
\* validate_genes_config on arbitrary JSON configurations
\* ------------------------------------------------------------------

\* Genes of a validated configuration
VGenes == 2
\* Orthologs per gene of a validated configuration
VOrthsPerGene == 2

\* A JSON value in an ortholog list that is not an object
NonDictOrth == [isDict |-> FALSE, species |-> "absent", uni |-> "absent",
                ent |-> "absent"]
VOrth(sp, u, e) == [isDict |-> TRUE, species |-> sp, uni |-> u, ent |-> e]
\* Orthologs: valid ones, bad species (blank, missing, non-string), no
\* usable id, and null / non-string ids
VOrthSet ==
    {NonDictOrth, VOrth("ok", "id", "absent"), VOrth("ws", "id", "absent"),
     VOrth("absent", "id", "absent"), VOrth("num", "absent", "id"),
     VOrth("ok", "ws", "absent"), VOrth("ok", "absent", "id"),
     VOrth("ok", "null", "id"), VOrth("ok", "id", "num")}
\* Gene entries: a named gene whose value is not a list, an empty list or a
\* list of orthologs; or a blank/empty gene name
VGeneSet ==
    {[name |-> "ok", isList |-> FALSE, orths |-> <<>>],
     [name |-> "ok", isList |-> TRUE, orths |-> <<>>]}
    \cup {[name |-> "ok", isList |-> TRUE, orths |-> os] :
             os \in SeqsUpTo(VOrthSet, VOrthsPerGene)}
    \cup {[name |-> n, isList |-> TRUE, orths |-> <<VOrth("ok", "id", "absent")>>] :
             n \in {"empty", "ws"}}
\* A JSON array, the empty object, and objects of 1..VGenes genes
VConfigs ==
    {[kind |-> "list", genes |-> <<>>], MkConfig(<<>>)}
    \cup {MkConfig(gs) : gs \in SeqsUpTo(VGeneSet, VGenes)}

ValIdle == vcfg = MissingConfig /\ vres = "unset"
ValInit == vcfg \in VConfigs /\ vres = "unset"

\* One call of validate_genes_config(config_data)
ValidateConfig ==
    /\ vres = "unset"
    /\ vres' = Validate(vcfg)
    /\ UNCHANGED vcfg

NoOrth == [uni |-> "absent", ent |-> "absent", uniCalled |-> FALSE,
           ncbiCalled |-> FALSE, uniRes |-> "none", ncbiRes |-> "none",
           source |-> "none"]

ColInit ==
    /\ cpc = "load"
    /\ cfg = MissingConfig
    /\ nCG = 0
    /\ cgi = 1
    /\ nOrth = 0
    /\ coi = 0
    /\ orth = NoOrth
    /\ succ = 0
    /\ acc = <<>>
    /\ got = <<>>
    /\ written = [g \in CGenes |-> <<>>]
    /\ nLookups = 0
    /\ writeErr = FALSE
    /\ colRet = FALSE

\* Mutant: the validation result is ignored
CollectLoadNoValidate ==
    /\ cpc = "load"
    /\ \E c \in CollectConfigs :
         /\ cfg' = c
         /\ IF ~LoadedFalsy(c) /\ Validate(c) # "raise" /\ \A g \in 1..Len(c.genes) : c.genes[g].isList /\ Len(c.genes[g].orths) > 0
              THEN /\ nCG' = Len(c.genes) /\ nOrth' = Len(c.genes[1].orths)
                   /\ cpc' = "orth"
                   /\ UNCHANGED colRet
              ELSE /\ cpc' = "returned" /\ colRet' = FALSE
                   /\ UNCHANGED <<nCG, nOrth>>
    /\ UNCHANGED <<cgi, coi, orth, succ, acc, got, written, nLookups, writeErr>>

\* Load genes_to_proteins.json; "if not genes_to_proteins: return False";
\* "if not validate_genes_config(...): return False"; an exception raised by
\* the validation is caught by the outer except, which returns False.
CollectLoad ==
    /\ cpc = "load"
    /\ \E c \in CollectConfigs :
         /\ cfg' = c
         /\ IF ~LoadedFalsy(c) /\ Validate(c) = "true"
              THEN /\ nCG' = Len(c.genes) /\ nOrth' = Len(c.genes[1].orths)
                   /\ cpc' = "orth"
                   /\ UNCHANGED colRet
              ELSE /\ cpc' = "returned" /\ colRet' = FALSE
                   /\ UNCHANGED <<nCG, nOrth>>
    /\ UNCHANGED <<cgi, coi, orth, succ, acc, got, written, nLookups, writeErr>>

\* Mutant: NCBI is only a fallback for an absent uniprot_id
FetchOrthologElif ==
    /\ cpc = "orth"
    /\ \E ur \in LookupResults, nr \in LookupResults :
         LET o == cfg.genes[cgi].orths[coi + 1]
             uniCalled == IdPresent(o.uni)
             uniRes == IF uniCalled THEN ur ELSE "none"
             uniRaised == uniRes = "raise"
             ncbiCalled == ~uniCalled /\ IdPresent(o.ent)
             ncbiRes == IF ncbiCalled THEN nr ELSE "none"
             source == IF uniRes = "seq" THEN "uniprot"
                       ELSE IF ncbiRes = "seq" THEN "ncbi"
                       ELSE "none"
         IN /\ orth' = [uni |-> o.uni, ent |-> o.ent, uniCalled |-> uniCalled,
                        ncbiCalled |-> ncbiCalled, uniRes |-> uniRes,
                        ncbiRes |-> ncbiRes, source |-> source]
            /\ got' = Append(got, source)
            /\ nLookups' = nLookups + (IF uniCalled THEN 1 ELSE 0)
                                    + (IF ncbiCalled THEN 1 ELSE 0)
            /\ IF source # "none"
                 THEN /\ acc' = Append(acc, <<cgi, coi + 1, source>>)
                      /\ succ' = succ + 1
                 ELSE UNCHANGED <<acc, succ>>
    /\ coi' = coi + 1
    /\ cpc' = IF coi + 1 = nOrth THEN "savegene" ELSE "orth"
    /\ UNCHANGED <<cfg, nCG, cgi, nOrth, written, writeErr, colRet>>

\* Mutant: retrieved sequences are prepended
FetchOrthologPrepend ==
    /\ cpc = "orth"
    /\ \E ur \in LookupResults, nr \in LookupResults :
         LET o == cfg.genes[cgi].orths[coi + 1]
             uniCalled == IdPresent(o.uni)
             uniRes == IF uniCalled THEN ur ELSE "none"
             uniRaised == uniRes = "raise"
             ncbiCalled == ~uniRaised /\ uniRes # "seq" /\ IdPresent(o.ent)
             ncbiRes == IF ncbiCalled THEN nr ELSE "none"
             source == IF uniRes = "seq" THEN "uniprot"
                       ELSE IF ncbiRes = "seq" THEN "ncbi"
                       ELSE "none"
         IN /\ orth' = [uni |-> o.uni, ent |-> o.ent, uniCalled |-> uniCalled,
                        ncbiCalled |-> ncbiCalled, uniRes |-> uniRes,
                        ncbiRes |-> ncbiRes, source |-> source]
            /\ got' = Append(got, source)
            /\ nLookups' = nLookups + (IF uniCalled THEN 1 ELSE 0)
                                    + (IF ncbiCalled THEN 1 ELSE 0)
            /\ IF source # "none"
                 THEN /\ acc' = <<<<cgi, coi + 1, source>>>> \o acc
                      /\ succ' = succ + 1
                 ELSE UNCHANGED <<acc, succ>>
    /\ coi' = coi + 1
    /\ cpc' = IF coi + 1 = nOrth THEN "savegene" ELSE "orth"
    /\ UNCHANGED <<cfg, nCG, cgi, nOrth, written, writeErr, colRet>>

\* One iteration of the ortholog loop: UniProt lookup when uniprot_id is
\* present and != "", NCBI lookup when nothing was retrieved and
\* entrez_protein_id is present and != ""; an exception skips the ortholog.
FetchOrtholog ==
    /\ cpc = "orth"
    /\ \E ur \in LookupResults, nr \in LookupResults :
         LET o == cfg.genes[cgi].orths[coi + 1]
             uniCalled == IdPresent(o.uni)
             uniRes == IF uniCalled THEN ur ELSE "none"
             uniRaised == uniRes = "raise"
             ncbiCalled == ~uniRaised /\ uniRes # "seq" /\ IdPresent(o.ent)
             ncbiRes == IF ncbiCalled THEN nr ELSE "none"
             source == IF uniRes = "seq" THEN "uniprot"
                       ELSE IF ncbiRes = "seq" THEN "ncbi"
                       ELSE "none"
         IN /\ orth' = [uni |-> o.uni, ent |-> o.ent, uniCalled |-> uniCalled,
                        ncbiCalled |-> ncbiCalled, uniRes |-> uniRes,
                        ncbiRes |-> ncbiRes, source |-> source]
            /\ got' = Append(got, source)
            /\ nLookups' = nLookups + (IF uniCalled THEN 1 ELSE 0)
                                    + (IF ncbiCalled THEN 1 ELSE 0)
            /\ IF source # "none"
                 THEN /\ acc' = Append(acc, <<cgi, coi + 1, source>>)
                      /\ succ' = succ + 1
                 ELSE UNCHANGED <<acc, succ>>
    /\ coi' = coi + 1
    /\ cpc' = IF coi + 1 = nOrth THEN "savegene" ELSE "orth"
    /\ UNCHANGED <<cfg, nCG, cgi, nOrth, written, writeErr, colRet>>

\* Mutant: a gene without sequences fails the stage
SaveGeneAbortOnEmpty ==
    /\ cpc = "savegene"
    /\ \E writeOk \in BOOLEAN :
         IF succ > 0 /\ writeOk
           THEN /\ written' = IF succ = 0 THEN written
                              ELSE [written EXCEPT ![cgi] = acc]
                /\ UNCHANGED writeErr
                /\ IF cgi < nCG
                     THEN /\ cgi' = cgi + 1
                          /\ nOrth' = Len(cfg.genes[cgi + 1].orths)
                          /\ coi' = 0 /\ succ' = 0 /\ acc' = <<>>
                          /\ got' = <<>> /\ orth' = NoOrth
                          /\ cpc' = "orth"
                          /\ UNCHANGED colRet
                     ELSE /\ cpc' = "returned" /\ colRet' = TRUE
                          /\ UNCHANGED <<cgi, nOrth, coi, succ, acc, got, orth>>
           ELSE /\ cpc' = "returned" /\ colRet' = FALSE /\ writeErr' = (succ > 0)
                /\ UNCHANGED <<written, cgi, nOrth, coi, succ, acc, got, orth>>
    /\ UNCHANGED <<cfg, nCG, nLookups>>

\* After the ortholog loop: skip a gene with no sequence, else write its
\* file (an OSError returns False); then the next gene or return True.
SaveGene ==
    /\ cpc = "savegene"
    /\ \E writeOk \in BOOLEAN :
         IF succ = 0 \/ writeOk
           THEN /\ written' = IF succ = 0 THEN written
                              ELSE [written EXCEPT ![cgi] = acc]
                /\ UNCHANGED writeErr
                /\ IF cgi < nCG
                     THEN /\ cgi' = cgi + 1
                          /\ nOrth' = Len(cfg.genes[cgi + 1].orths)
                          /\ coi' = 0 /\ succ' = 0 /\ acc' = <<>>
                          /\ got' = <<>> /\ orth' = NoOrth
                          /\ cpc' = "orth"
                          /\ UNCHANGED colRet
                     ELSE /\ cpc' = "returned" /\ colRet' = TRUE
                          /\ UNCHANGED <<cgi, nOrth, coi, succ, acc, got, orth>>
           ELSE /\ cpc' = "returned" /\ colRet' = FALSE /\ writeErr' = TRUE
                /\ UNCHANGED <<written, cgi, nOrth, coi, succ, acc, got, orth>>
    /\ UNCHANGED <<cfg, nCG, nLookups>>

ColNext == CollectLoad \/ FetchOrtholog \/ SaveGene

\* ------------------------------------------------------------------
\* Client fetch operations (UniProt, S3 cache, NCBI, EBI, ClinVar)
\* ------------------------------------------------------------------

\* An operation call: the function, its identifier argument and the
\* behaviour of the environment ("-": not used by that function).
\*   s3:     UniProtClient.s3_client: None, S3Client with enabled False,
\*           or an enabled S3Client
\*   get:    get_object: cached content, empty object, NoSuchKey, other
\*           ClientError, or a botocore error that is not a ClientError
\*           (NoCredentialsError, EndpointConnectionError, ...)
\*   http:   HTTP exchange: 2xx with a body, 2xx with an empty body,
\*           HTTPStatusError, RequestError, 2xx with a body that is not JSON
\*   put:    put_object: stored, ClientError, other botocore error
\*   shape:  UniProt JSON document: features with variants, without
\*           variants, a top-level array, "features": null, a feature whose
\*           "type" is null
\*   search: ClinVar esearch: ids, no ids, HTTPStatusError, RequestError,
\*           invalid JSON
\*   summ:   ClinVar esummary: ok, HTTPStatusError, RequestError, invalid JSON
Call(f, a, s, g, h, p, sh, se, su) ==
    [fn |-> f, arg |-> a, s3 |-> s, get |-> g, http |-> h, put |-> p,
     shape |-> sh, search |-> se, summ |-> su]
S3Modes == {"none", "disabled", "enabled"}
S3Gets == {"hit", "hitempty", "nosuchkey", "clienterr", "boto"}
S3Puts == {"ok", "clienterr", "boto"}
TextHttp == {"ok", "okempty", "status", "request"}
JsonHttp == {"ok", "status", "request", "badjson"}
Shapes == {"variants", "novariants", "list", "nullfeatures", "nulltype"}
Searches == {"ids", "noids", "status", "request", "badjson"}
Summaries == {"ok", "status", "request", "badjson"}
Calls ==
    {Call("uniprot", a, s, g, h, p, "-", "-", "-") :
        a \in {"", "P35498"}, s \in S3Modes, g \in S3Gets, h \in TextHttp,
        p \in S3Puts}
    \cup {Call("ncbi", a, "-", "-", h, "-", "-", "-", "-") :
             a \in {"", "NP_001"}, h \in TextHttp}
    \cup {Call(f, "job", "-", "-", h, "-", "-", "-", "-") :
             f \in {"submit", "check", "result"}, h \in TextHttp}
    \cup {Call("variants", "P35498", "-", "-", h, "-", sh, "-", "-") :
             h \in JsonHttp, sh \in Shapes}
    \cup {Call("clinvar", "SCN1A", "-", "-", "-", "-", "-", se, su) :
             se \in Searches, su \in Summaries}

\* Outcome of an operation: returned value or raised exception, requests
\* made, and whether a variant CSV was written
Out(k, v, n, w) == [kind |-> k, val |-> v, requests |-> n, csv |-> w]
NoOut == Out("unset", "-", 0, FALSE)

\* S3Client.get_sequence: "none" (None), the content, or "raise"
S3GetSequence(c) ==
    IF c.s3 = "disabled" THEN "none"
    ELSE CASE c.get = "hit"       -> "seq"
           [] c.get = "hitempty"  -> ""
           [] c.get = "boto"      -> "raise"
           [] OTHER               -> "none"

\* S3Client.put_sequence: True/False, or "raise"
S3PutSequence(c) ==
    IF c.s3 = "disabled" THEN "false"
    ELSE CASE c.put = "ok"   -> "true"
           [] c.put = "boto" -> "raise"
           [] OTHER          -> "false"

\* UniProtClient.fetch_protein_fasta_sequence_by_accession_id
FetchUniProtFasta(c) ==
    IF c.arg = "" THEN Out("value", "", 0, FALSE)
    ELSE LET s3n == IF c.s3 = "enabled" THEN 1 ELSE 0
             cached == IF c.s3 = "none" THEN "none" ELSE S3GetSequence(c)
         IN
         IF cached = "raise" THEN Out("raise", "-", s3n, FALSE)
         ELSE IF cached = "seq" THEN Out("value", "seq", s3n, FALSE)
         ELSE CASE c.http = "ok" ->
                     IF c.s3 # "none"
                       THEN IF S3PutSequence(c) = "raise"
                              THEN Out("raise", "-", 2 * s3n + 1, FALSE)
                              ELSE Out("value", "seq", 2 * s3n + 1, FALSE)
                       ELSE Out("value", "seq", 1, FALSE)
                [] c.http = "okempty" -> Out("value", "", s3n + 1, FALSE)
                [] OTHER -> Out("value", "", s3n + 1, FALSE)

\* NCBIClient.fetch_protein_fasta_by_entrez_id
FetchNcbiFasta(c) ==
    IF c.arg = "" THEN Out("value", "", 0, FALSE)
    ELSE CASE c.http = "ok"      -> Out("value", "seq", 1, FALSE)
           [] c.http = "okempty" -> Out("value", "", 1, FALSE)
           [] OTHER              -> Out("value", "", 1, FALSE)

\* EBIClient.submit_job / check_status (stripped text) and get_result (text);
\* None on HTTPStatusError / RequestError
EbiCall(c) ==
    CASE c.http = "ok"      -> Out("value", IF c.fn = "check" THEN "RUNNING"
                                            ELSE IF c.fn = "submit" THEN "job"
                                            ELSE "payload", 1, FALSE)
      [] c.http = "okempty" -> Out("value", "", 1, FALSE)
      [] OTHER              -> Out("value", "None", 1, FALSE)

\* UniProtClient.fetch_protein_variants_by_accession_id: the request, status
\* check, JSON decoding and data.keys() are inside try/except Exception;
\* the feature extraction and the CSV write are not
FetchVariants(c) ==
    IF c.http # "ok" \/ c.shape = "list" THEN Out("value", "None", 1, FALSE)
    ELSE IF c.shape \in {"nullfeatures", "nulltype"}
      THEN Out("raise", "-", 1, FALSE)
    ELSE Out("value", "None", 1, TRUE)

\* ClinVarClient.get_gene_variants: search_variants_by_gene and
\* get_variant_summaries let httpx and JSON errors propagate
ClinVarGeneVariants(c) ==
    IF c.search \in {"status", "request", "badjson"} THEN Out("raise", "-", 1, FALSE)
    ELSE IF c.search = "noids" THEN Out("value", "[]", 1, FALSE)
    ELSE IF c.summ = "ok" THEN Out("value", "variants", 2, FALSE)
    ELSE Out("raise", "-", 2, FALSE)

ClientOutcome(c) ==
    CASE c.fn = "uniprot"  -> FetchUniProtFasta(c)
      [] c.fn = "ncbi"     -> FetchNcbiFasta(c)
      [] c.fn = "variants" -> FetchVariants(c)
      [] c.fn = "clinvar"  -> ClinVarGeneVariants(c)
      [] OTHER             -> EbiCall(c)

CliIdle == call = Call("ncbi", "", "-", "-", "-", "-", "-", "-", "-") /\ cout = NoOut
CliInit == call \in Calls /\ cout = NoOut

\* One call of the client operation against the chosen environment
CallClient ==
    /\ cout = NoOut
    /\ cout' = ClientOutcome(call)
    /\ UNCHANGED call

\* ------------------------------------------------------------------
\* compute_conservation_scores / compute_conservation_for_all_msas
\* ------------------------------------------------------------------

\* Sequences of a generated alignment file
MaxSeqs == 2
\* Length of a generated aligned sequence
MaxCols == 2
\* MSA files in the directory of a batch
MaxBatchFiles == 2

Symbols == {"A", "C", "-"}
\* Strings over Symbols of length 0..k
StringsUpTo(k) == UNION {[1..n -> Symbols] : n \in 0..k}
\* An MSA path: missing, a directory, an empty file, a file that is not
\* FASTA, or a FASTA file with the given records
MsaFile(k, ss) == [kind |-> k, seqs |-> ss]
\* Files with aligned sequences of equal length 1..MaxCols
AlignedFiles ==
    UNION {{MsaFile("fasta", ss) : ss \in [1..n -> [1..l -> Symbols]]} :
           n \in 1..MaxSeqs, l \in 1..MaxCols}
ConsFiles ==
    {MsaFile("missing", <<>>), MsaFile("dir", <<>>), MsaFile("empty", <<>>),
     MsaFile("garbage", <<>>), MsaFile("fasta", <<<<"A", "C">>, <<"A">>>>),
     MsaFile("fasta", <<<<>>, <<>>>>)}
    \cup AlignedFiles

\* AlignIO.read(..., "fasta") yields an alignment (equal record lengths);
\* the other kinds raise ValueError or fail the exists()/is_file() checks
ReadsAsAlignment(f) ==
    /\ f.kind = "fasta" /\ Len(f.seqs) > 0
    /\ \A k \in 1..Len(f.seqs) : Len(f.seqs[k]) = Len(f.seqs[1])
\* alignment.get_alignment_length()
AlnLen(f) == Len(f.seqs[1])
\* The file passes every check before the per-column loop
AlignmentOk(f) == ReadsAsAlignment(f) /\ AlnLen(f) > 0

\* str(alignment[:, i]) for 1-based column i
Column(ss, i) == [k \in 1..Len(ss) |-> ss[k][i]]
CharCount(col, ch) == Cardinality({k \in DOMAIN col : col[k] = ch})
CharsOf(col) == {col[k] : k \in DOMAIN col}
\* The frequencies an entropy is computed from: count of each unique
\* character (with gaps, and of column_nogap)
EntropyFull(col) == [ch \in CharsOf(col) |-> CharCount(col, ch)]
EntropyNoGap(col) == [ch \in CharsOf(col) \ {"-"} |-> CharCount(col, ch)]
\* -sum(p * log2 p) over these frequencies is 0.0 exactly when at most one
\* character occurs
EntropyIsZero(e) == Cardinality(DOMAIN e) <= 1
\* max(unique_chars_nogap, key=column_nogap.count): the first maximum in set
\* iteration order, which depends on string hashing; "-" for an all-gap column
Consensuses(col) ==
    LET U == CharsOf(col) \ {"-"} IN
    IF U = {} THEN {"-"}
    ELSE {ch \in U : \A d \in U : CharCount(col, ch) >= CharCount(col, d)}
ConsensusChoices(f) ==
    IF AlignmentOk(f)
      THEN {cs \in [1..AlnLen(f) -> Symbols] :
              \A i \in 1..AlnLen(f) : cs[i] \in Consensuses(Column(f.seqs, i))}
      ELSE {<<>>}

Header == <<"Position", "ShannonEntropy_WithGaps", "ShannonEntropy_NoGaps",
            "ConsensusResidue">>
\* Mutant: positions are 0-based
ConsRowZeroBased(ss, i, c) ==
    <<i - 1, EntropyFull(Column(ss, i)), EntropyNoGap(Column(ss, i)), c>>
\* Mutant: the no-gap entropy is computed over the full column
ConsRowGapEntropy(ss, i, c) ==
    <<i, EntropyFull(Column(ss, i)), EntropyFull(Column(ss, i)), c>>
\* scores.append((i + 1, entropy_full, entropy_nogap, consensus))
ConsRow(ss, i, c) ==
    <<i, EntropyFull(Column(ss, i)), EntropyNoGap(Column(ss, i)), c>>
\* The loop over range(aln_len)
RECURSIVE ScoreRows(_, _, _)
ScoreRows(ss, cs, i) ==
    IF i > Len(cs) THEN <<>>
    ELSE <<ConsRow(ss, i, cs[i])>> \o ScoreRows(ss, cs, i + 1)

NoCsv == [written |-> FALSE, header |-> <<>>, rows |-> <<>>]
\* Outcome of compute_conservation_scores(f): the returned value ("path" or
\* "None") and the CSV written; writeOk: the output directory and the CSV
\* file could be created
ConservationResult(f, cs, writeOk) ==
    IF AlignmentOk(f) /\ writeOk
      THEN [ret |-> "path",
            csv |-> [written |-> TRUE, header |-> Header,
                     rows |-> ScoreRows(f.seqs, cs, 1)]]
      ELSE [ret |-> "None", csv |-> NoCsv]

ConsIdle == cfile = MsaFile("missing", <<>>) /\ cret = "unset" /\ consOut = NoCsv
ConsInit == cfile \in ConsFiles /\ cret = "unset" /\ consOut = NoCsv

\* One call of compute_conservation_scores(msa_file)
ComputeScores ==
    /\ cret = "unset"
    /\ \E cs \in ConsensusChoices(cfile), w \in BOOLEAN :
         LET r == ConservationResult(cfile, cs, w) IN
         /\ cret' = r.ret
         /\ consOut' = r.csv
    /\ UNCHANGED cfile

RunIdle == cret2 = "unset" /\ consOut2 = NoCsv

\* A second, separate run of compute_conservation_scores on the same path
\* (a new interpreter, so set iteration order may differ)
ComputeScoresRerun ==
    /\ cret # "unset" /\ cret2 = "unset"
    /\ \E cs \in ConsensusChoices(cfile), w \in BOOLEAN :
         LET r == ConservationResult(cfile, cs, w) IN
         /\ cret2' = r.ret
         /\ consOut2' = r.csv
    /\ UNCHANGED <<cfile, cret, consOut>>

\* Files of a batch directory: failing kinds and one good alignment
BatchFiles ==
    {MsaFile("missing", <<>>), MsaFile("empty", <<>>), MsaFile("garbage", <<>>),
     MsaFile("fasta", <<<<"A", "C">>, <<"A">>>>), MsaFile("fasta", <<<<>>, <<>>>>),
     MsaFile("fasta", <<<<"A", "C">>, <<"A", "-">>>>)}

BatchIdle == bfiles = <<>> /\ bi = 0 /\ bres = <<>> /\ bsucc = 0 /\ bret = "unset"
BatchInit ==
    /\ bfiles \in SeqsUpTo(BatchFiles, MaxBatchFiles) \cup {<<>>}
    /\ bi = 1 /\ bres = <<>> /\ bsucc = 0 /\ bret = "unset"

\* Mutant: the loop stops at the first failed file
BatchFileStopOnFailure ==
    /\ bret = "unset" /\ bi <= Len(bfiles)
    /\ \E cs \in ConsensusChoices(bfiles[bi]), w \in BOOLEAN :
         LET r == ConservationResult(bfiles[bi], cs, w) IN
         /\ bres' = Append(bres, [ret |-> r.ret, written |-> r.csv.written])
         /\ bsucc' = bsucc + (IF r.ret # "None" THEN 1 ELSE 0)
         /\ bi' = IF r.ret = "None" THEN Len(bfiles) + 1 ELSE bi + 1
    /\ UNCHANGED <<bfiles, bret>>

\* One iteration of the loop over msa_files: an exception is caught and the
\* loop continues
BatchFile ==
    /\ bret = "unset" /\ bi <= Len(bfiles)
    /\ \E cs \in ConsensusChoices(bfiles[bi]), w \in BOOLEAN :
         LET r == ConservationResult(bfiles[bi], cs, w) IN
         /\ bres' = Append(bres, [ret |-> r.ret, written |-> r.csv.written])
         /\ bsucc' = bsucc + (IF r.ret # "None" THEN 1 ELSE 0)
    /\ bi' = bi + 1
    /\ UNCHANGED <<bfiles, bret>>

\* After the loop: success_count > 0 or total_count == 0
BatchFinish ==
    /\ bret = "unset" /\ bi > Len(bfiles)
    /\ bret' = IF bsucc > 0 \/ Len(bfiles) = 0 THEN "true" ELSE "false"
    /\ UNCHANGED <<bfiles, bi, bres, bsucc>>

\* ------------------------------------------------------------------
\* VariantPlotter: variant classification
\* ------------------------------------------------------------------

\* Rows of a variant table
MaxVariantRows == 2
\* Distinct protein positions of the rows
VariantPositions == 1..2
\* Phrases a description is made of (as written in UniProt / ClinVar)
DescTokens == {"Likely pathogenic", "Reduced function", "Loss-of-function",
               "Likely benign", "Uncertain significance", "Borderline"}
\* str.lower() of each phrase
LowerCase ==
    [t \in DescTokens |->
        CASE t = "Likely pathogenic"      -> "likely pathogenic"
          [] t = "Reduced function"       -> "reduced function"
          [] t = "Loss-of-function"       -> "loss-of-function"
          [] t = "Likely benign"          -> "likely benign"
          [] t = "Uncertain significance" -> "uncertain significance"
          [] OTHER                        -> "borderline"]
\* phrase in str(description).lower()
DescContains(d, phrase) == \E t \in d : LowerCase[t] = phrase
DescContainsAny(d, phrases) == \E ph \in phrases : DescContains(d, ph)

Categories == {"lof", "pathogenic", "benign", "uncertain", "borderline",
               "reduced_function"}
\* The trigger phrases tested for each category
Triggers(cat) ==
    CASE cat = "pathogenic" -> {"likely pathogenic"}
      [] cat = "benign"     -> {"likely benign"}
      [] cat = "uncertain"  -> {"uncertain significance"}
      [] cat = "borderline" -> {"borderline"}
      [] cat = "reduced_function" ->
            {"reduced function", "decreased peak current", "impaired channel",
             "reduced current"}
      [] OTHER ->
            {"loss of function", "loss-of-function", "non-functional channel",
             "results in a non-functional channel",
             "complete absence of sodium current", "absence of sodium current",
             "complete loss of sodium ion transmembrane transport",
             "complete loss of sodium"}

VRow(p, d) == [pos |-> p, desc |-> d]
VariantDescs == {d \in SUBSET DescTokens : Cardinality(d) <= 2}
VariantTables ==
    SeqsUpTo({VRow(p, d) : p \in VariantPositions, d \in VariantDescs},
             MaxVariantRows)

NoLists == [c \in Categories |-> <<>>]
\* Order of the category tests in the loop body
CatOrder == <<"pathogenic", "benign", "uncertain", "borderline",
              "reduced_function", "lof">>
\* Mutant: the category tests form an if/elif chain
ClassifyRowElif(lists, r) ==
    LET ks == {k \in 1..6 : DescContainsAny(r.desc, Triggers(CatOrder[k]))}
    IN IF ks = {} THEN lists
       ELSE LET c == CatOrder[CHOOSE k \in ks : \A j \in ks : k <= j]
            IN [lists EXCEPT ![c] = Append(@, r.pos)]
\* One iteration of the loop over vars_df.iterrows(): every category test
\* is a separate if
ClassifyRow(lists, r) ==
    [c \in Categories |->
        IF DescContainsAny(r.desc, Triggers(c)) THEN Append(lists[c], r.pos)
        ELSE lists[c]]
RECURSIVE ClassifyRows(_, _, _)
ClassifyRows(rows, i, lists) ==
    IF i > Len(rows) THEN lists
    ELSE ClassifyRows(rows, i + 1, ClassifyRow(lists, rows[i]))
SeqRange(sq) == {sq[k] : k \in DOMAIN sq}
\* _get_dynamic_variant_classifications: lof and pathogenic positions as
\* sorted(set(...)), the others as lists (only membership is used)
Classify(rows) ==
    LET lists == ClassifyRows(rows, 1, NoLists) IN
    [c \in Categories |-> SeqRange(lists[c])]

ClsIdle == vrows = <<>> /\ vcls = [c \in Categories |-> {}] /\ clsDone = FALSE
ClsInit == vrows \in VariantTables /\ vcls = [c \in Categories |-> {}]
           /\ clsDone = FALSE

\* One call of _get_dynamic_variant_classifications(vars_df, title_base)
ClassifyVariants ==
    /\ ~clsDone
    /\ vcls' = Classify(vrows)
    /\ clsDone' = TRUE
    /\ UNCHANGED vrows

\* ------------------------------------------------------------------
\* VariantPlotter._parse_variant_positions
\* ------------------------------------------------------------------

\* Rows of a variants CSV
MaxPositionRows == 2

\* Values of the 'position' column as read by pandas:
\*   null      NaN / None
\*   num       an integer n, or the string "n"
\*   frac      a float n + 0.7 (or its string)
\*   text      a non-numeric string such as "abc"
\*   inf       float('inf') or the string "inf"
\*   dict      "{'value': n}"
\*   dictstr   "{'value': 'n'}"
\*   dictnone  "{'value': None}"
\*   dictnokey "{'start': n}"
\*   dictname  "{'value': EXACT}" (an undefined name)
\*   dictsyn   "{'value': n" (unbalanced)
\*   set       "{1, 2}"
PosKinds == {"null", "num", "frac", "text", "inf", "dict", "dictstr",
             "dictnone", "dictnokey", "dictname", "dictsyn", "set"}
PosValue(k, n) == [kind |-> k, n |-> n]
PosValues == {PosValue(k, n) : k \in PosKinds, n \in 0..1}

\* parse_position(x): an integer ("int", n), None, or "raise" for an
\* exception outside (ValueError, TypeError, SyntaxError)
ParsePosition(v) ==
    CASE v.kind = "null"                                  -> [res |-> "None", n |-> 0]
      [] v.kind \in {"num", "frac", "dict", "dictstr"}     -> [res |-> "int", n |-> v.n]
      [] v.kind \in {"text", "dictnone", "dictsyn", "set"} -> [res |-> "None", n |-> 0]
      [] OTHER -> [res |-> "raise", n |-> 0]   \* KeyError, NameError, OverflowError

PRow(v, id) == [pos |-> v, id |-> id]
PositionTables ==
    {[k \in 1..n |-> PRow(vs[k], k)] :
        n \in 0..MaxPositionRows, vs \in [1..MaxPositionRows -> PosValues]}

\* vars_df['position'].apply(parse_position), dropna, astype(int); the
\* first raising value makes apply raise
RECURSIVE ParseRows(_, _)
ParseRows(rows, i) ==
    IF i > Len(rows) THEN [kind |-> "value", rows |-> <<>>]
    ELSE LET p == ParsePosition(rows[i].pos) IN
         IF p.res = "raise" THEN [kind |-> "raise", rows |-> <<>>]
         ELSE LET rest == ParseRows(rows, i + 1) IN
              IF rest.kind = "raise" THEN rest
              ELSE [kind |-> "value",
                    rows |-> (IF p.res = "None" THEN <<>>
                              ELSE <<[pos |-> rows[i].pos, id |-> rows[i].id,
                                      parsed |-> p.n]>>) \o rest.rows]

NoParse == [kind |-> "unset", rows |-> <<>>]
ParseIdle == prows = <<>> /\ pout = NoParse
ParseInit == prows \in PositionTables /\ pout = NoParse

\* One call of _parse_variant_positions(vars_df)
ParseVariantPositions ==
    /\ pout = NoParse
    /\ pout' = ParseRows(prows, 1)
    /\ UNCHANGED prows

\* ------------------------------------------------------------------
\* async_main at the level of per-gene files (one run)
\* ------------------------------------------------------------------

\* Genes named in this or an earlier run's configuration
NumPipeGenes == 2
PipeGenes == 1..NumPipeGenes
MinOf(S) == CHOOSE x \in S : \A y \in S : x <= y
\* An event: kind, gene, and whether the file it depends on existed
Ev(k, g, r) == [kind |-> k, gene |-> g, ready |-> r]

\* A run starts from the configured genes and the files an earlier run
\* left in the ortholog, MSA and conservation directories
PipeIdle ==
    /\ ppc = "collect" /\ ptodo = {} /\ cfgG = {} /\ orthF = {} /\ wNow = {}
    /\ msaF = {} /\ consF = {} /\ alnSub = {} /\ treeSub = {} /\ overlays = {}
    /\ plog = <<>> /\ psucc = 0
PipeInit ==
    /\ cfgG \in SUBSET PipeGenes \ {{}}
    /\ orthF \in SUBSET PipeGenes
    /\ msaF \in SUBSET PipeGenes
    /\ consF \in SUBSET PipeGenes
    /\ ppc = "collect" /\ ptodo = cfgG /\ wNow = {}
    /\ alnSub = {} /\ treeSub = {} /\ overlays = {} /\ plog = <<>> /\ psucc = 0

\* Step 1, one gene: its file is written, it retrieved nothing, or the write
\* raised OSError (collection returns False and async_main returns 1)
PCollectGene ==
    /\ ppc = "collect" /\ ptodo # {}
    /\ LET g == MinOf(ptodo) IN
       \E o \in {"written", "none", "writeerr"} :
         CASE o = "written" ->
                /\ orthF' = orthF \cup {g} /\ wNow' = wNow \cup {g}
                /\ ptodo' = ptodo \ {g} /\ UNCHANGED ppc
           [] o = "none" ->
                /\ ptodo' = ptodo \ {g} /\ UNCHANGED <<ppc, orthF, wNow>>
           [] OTHER ->
                /\ ppc' = "aborted" /\ UNCHANGED <<ptodo, orthF, wNow>>
    /\ UNCHANGED <<cfgG, msaF, consF, alnSub, treeSub, overlays, plog, psucc>>

\* Step 1 returns True; step 2 globs the ortholog directory
PCollectEnd ==
    /\ ppc = "collect" /\ ptodo = {}
    /\ ppc' = "align" /\ ptodo' = orthF /\ psucc' = 0
    /\ plog' = Append(plog, Ev("collected", 0, TRUE))
    /\ UNCHANGED <<cfgG, orthF, wNow, msaF, consF, alnSub, treeSub, overlays>>

\* Step 2 or 3, one ortholog file: unreadable or blank (step 1 writes any
\* truthy lookup result, a whitespace-only one included), submit_job called
\* and failing, or the job runs and its artifact is written or not
PStageFile(stage, kind) ==
    /\ ppc = stage /\ ptodo # {}
    /\ LET g == MinOf(ptodo) IN
       /\ ptodo' = ptodo \ {g}
       /\ \E o \in {"blank", "nosubmit", "fail", "ok"} :
            /\ IF o = "blank"
                 THEN UNCHANGED <<plog, alnSub, treeSub, msaF, psucc>>
                 ELSE /\ plog' = Append(plog, Ev(kind, g, g \in orthF))
                      /\ IF stage = "align"
                           THEN alnSub' = alnSub \cup {g} /\ UNCHANGED treeSub
                           ELSE treeSub' = treeSub \cup {g} /\ UNCHANGED alnSub
                      /\ IF o = "ok"
                           THEN /\ psucc' = psucc + 1
                                /\ IF stage = "align" THEN msaF' = msaF \cup {g}
                                                      ELSE UNCHANGED msaF
                           ELSE UNCHANGED <<psucc, msaF>>
    /\ UNCHANGED <<ppc, cfgG, orthF, wNow, consF, overlays>>
PAlignFile == PStageFile("align", "align")
PTreeFile == PStageFile("tree", "tree")

\* End of step 2 or 3: no success returns False (async_main returns 1);
\* after step 3, step 4 (variant retrieval) may still return 1
PStageEnd ==
    /\ ppc \in {"align", "tree"} /\ ptodo = {}
    /\ IF psucc = 0
         THEN ppc' = "aborted" /\ UNCHANGED ptodo
         ELSE IF ppc = "align"
                THEN ppc' = "tree" /\ ptodo' = orthF
                ELSE \E next \in {"cons", "aborted"} :
                       ppc' = next /\ ptodo' = msaF
    /\ psucc' = 0
    /\ UNCHANGED <<cfgG, orthF, wNow, msaF, consF, alnSub, treeSub, overlays, plog>>

\* Step 5 (conservation), one MSA file: its CSV is written or not
PConsFile ==
    /\ ppc = "cons" /\ ptodo # {}
    /\ LET g == MinOf(ptodo) IN
       /\ ptodo' = ptodo \ {g}
       /\ plog' = Append(plog, Ev("cons", g, g \in msaF))
       /\ \E ok \in BOOLEAN : consF' = IF ok THEN consF \cup {g} ELSE consF
    /\ UNCHANGED <<ppc, cfgG, orthF, wNow, msaF, alnSub, treeSub, overlays, psucc>>

\* Step 5 ends; step 6 (plots) may raise and return 1, otherwise step 7
\* iterates over the configured genes
PConsEnd ==
    /\ ppc = "cons" /\ ptodo = {}
    /\ ppc' \in {"varplots", "aborted"} /\ ptodo' = cfgG
    /\ UNCHANGED <<cfgG, orthF, wNow, msaF, consF, alnSub, treeSub, overlays,
                   plog, psucc>>

\* Mutant: the conservation CSV is not checked before plotting
PVarPlotNoCheck ==
    /\ ppc = "varplots" /\ ptodo # {}
    /\ LET g == MinOf(ptodo) IN
       /\ ptodo' = ptodo \ {g}
       /\ \E variantsCsv \in BOOLEAN :
            IF variantsCsv
              THEN /\ overlays' = overlays \cup {g}
                   /\ plog' = Append(plog, Ev("overlay", g, g \in consF))
              ELSE UNCHANGED <<overlays, plog>>
    /\ UNCHANGED <<ppc, cfgG, orthF, wNow, msaF, consF, alnSub, treeSub, psucc>>

\* Step 7, one gene: skip unless <gene>_conservation.csv and the variants
\* CSV exist, then plot the overlay
PVarPlot ==
    /\ ppc = "varplots" /\ ptodo # {}
    /\ LET g == MinOf(ptodo) IN
       /\ ptodo' = ptodo \ {g}
       /\ \E variantsCsv \in BOOLEAN :
            IF g \in consF /\ variantsCsv
              THEN /\ overlays' = overlays \cup {g}
                   /\ plog' = Append(plog, Ev("overlay", g, g \in consF))
              ELSE UNCHANGED <<overlays, plog>>
    /\ UNCHANGED <<ppc, cfgG, orthF, wNow, msaF, consF, alnSub, treeSub, psucc>>

PVarEnd ==
    /\ ppc = "varplots" /\ ptodo = {}
    /\ ppc' = "done"
    /\ UNCHANGED <<ptodo, cfgG, orthF, wNow, msaF, consF, alnSub, treeSub,
                   overlays, plog, psucc>>

PipeNext == PCollectGene \/ PCollectEnd \/ PAlignFile \/ PTreeFile \/ PStageEnd
            \/ PConsFile \/ PConsEnd \/ PVarPlot \/ PVarEnd

\* ------------------------------------------------------------------
\* VariantPlotter._plot_variant_overlay_main: highlighting tiers
\* ------------------------------------------------------------------

\* PlotConfig fields read by the overlay (defaults 50, True, 10)
OverlayDensities == 0..1
ClusterDistances == 0..1
OverlayConfigs ==
    [cluster : BOOLEAN, density : OverlayDensities, dist : ClusterDistances]

LessThan(a, b) == a < b
\* vars_df['parsed_position'].values
PositionsOf(rows) == [i \in 1..Len(rows) |-> rows[i].pos]
\* int(np.median(sq)) of a sorted non-empty sequence of positive integers
MedianInt(sq) ==
    LET n == Len(sq) IN
    IF n % 2 = 1 THEN sq[(n + 1) \div 2]
    ELSE (sq[n \div 2] + sq[n \div 2 + 1]) \div 2
\* The while loop of _cluster_variants from index i of the sorted positions
RECURSIVE ClusterFrom(_, _, _)
ClusterFrom(s, i, dist) ==
    IF i > Len(s) THEN <<>>
    ELSE LET j == MinOf({k \in (i + 1)..(Len(s) + 1) :
                           k = Len(s) + 1 \/ s[k] - s[i] > dist})
         IN <<MedianInt(SubSeq(s, i, j - 1))>> \o ClusterFrom(s, j, dist)
\* _cluster_variants
ClusterVariants(vp, plotCfg) ==
    IF Len(vp) <= plotCfg.density THEN vp
    ELSE ClusterFrom(SortSeq(vp, LessThan), 1, plotCfg.dist)

\* Entries of sq whose value is in S, in order (boolean-mask indexing)
Filtered(sq, S) == SelectSeq(sq, LAMBDA p : p \in S)
\* Number of entries of sq whose value is in S
CountIn(sq, S) == Cardinality({i \in 1..Len(sq) : sq[i] \in S})

\* The positions drawn in each tier: regular positions (all of them as
\* vlines, or in the scatter branch only the first k, k the number of
\* regular positions found in consv_df['Position']), red LoF vlines,
\* orange likely-pathogenic vlines
OverlayTiers(rows, plotCfg, consv) ==
    LET vp   == PositionsOf(rows)
        kinds == Classify(rows)
        lof  == kinds["lof"]
        path == kinds["pathogenic"]
        lp   == SeqRange(Filtered(vp, path))
        clustered == plotCfg.cluster /\ Len(vp) > plotCfg.density
        \* regular_positions and lof_variant_positions, as arrays
        cl   == ClusterVariants(vp, plotCfg)
        regSeq == IF clustered
                    THEN Filtered(cl, SeqRange(cl) \ lof)
                    ELSE Filtered(vp, SeqRange(vp) \ (lof \cup path))
        lofSeq == IF clustered THEN Filtered(cl, lof) ELSE Filtered(vp, lof)
        drawnReg == IF Len(regSeq) > plotCfg.density
                      THEN SubSeq(regSeq, 1, CountIn(regSeq, consv))
                      ELSE regSeq
    IN [regular |-> SeqRange(drawnReg), lofTier |-> SeqRange(lofSeq),
        lpTier |-> lp, lof |-> lof, path |-> path]

NoTiers == [regular |-> {}, lofTier |-> {}, lpTier |-> {}, lof |-> {},
            path |-> {}]
OvIdle == ovrows = <<>> /\ ovcfg = [cluster |-> FALSE, density |-> 0, dist |-> 0]
          /\ ovtiers = NoTiers /\ ovDone = FALSE /\ ovconsv = {}
OvInit == ovrows \in VariantTables /\ ovcfg \in OverlayConfigs
          /\ ovconsv \in SUBSET VariantPositions
          /\ ovtiers = NoTiers /\ ovDone = FALSE

\* One call of _plot_variant_overlay_main for a variant table
PlotVariantOverlay ==
    /\ ~ovDone
    /\ ovtiers' = OverlayTiers(ovrows, ovcfg, ovconsv)
    /\ ovDone' = TRUE
    /\ UNCHANGED <<ovrows, ovcfg, ovconsv>>

\* ------------------------------------------------------------------
\* Specifications
\* ------------------------------------------------------------------

vars == <<drvVars, stVars, colVars, valVars, cliVars, consVars, batchVars,
         runVars, clsVars, parseVars, pipeVars, ovVars>>

\* async_main
\* The other operations' variables at rest
IdleRest == ConsIdle /\ BatchIdle /\ RunIdle /\ OvIdle /\ PipeIdle /\ ParseIdle /\ ClsIdle
Init == DrvInit /\ StInit /\ ColInit /\ ValIdle /\ CliIdle /\ IdleRest
Next == DrvNext /\ UNCHANGED <<stVars, colVars, valVars, cliVars,
                               consVars, batchVars, runVars, clsVars, parseVars, pipeVars, ovVars>>
Spec == Init /\ [][Next]_vars

\* align_sequences_msa and generate_phylogenetic_trees
StageNext == StNext /\ UNCHANGED <<drvVars, colVars, valVars, cliVars,
                                   consVars, batchVars, runVars, clsVars, parseVars, pipeVars, ovVars>>
StageSpec == Init /\ [][StageNext]_vars
FairStageSpec == StageSpec /\ WF_vars(StageNext)

\* collect_orthologous_sequences
CollectNext == ColNext /\ UNCHANGED <<drvVars, stVars, valVars, cliVars,
                                      consVars, batchVars, runVars, clsVars, parseVars, pipeVars, ovVars>>
CollectSpec == Init /\ [][CollectNext]_vars

\* validate_genes_config applied to one configuration
ValidateNext == ValidateConfig /\ UNCHANGED <<drvVars, stVars, colVars, cliVars,
                                              consVars, batchVars, runVars, clsVars, parseVars, pipeVars, ovVars>>
ValidateInit == DrvInit /\ StInit /\ ColInit /\ ValInit /\ CliIdle /\ IdleRest
ValidateSpec == ValidateInit /\ [][ValidateNext]_vars

\* one client operation applied against one environment behaviour
ClientNext == CallClient /\ UNCHANGED <<drvVars, stVars, colVars, valVars,
                                        consVars, batchVars, runVars, clsVars, parseVars, pipeVars, ovVars>>
ClientInit == DrvInit /\ StInit /\ ColInit /\ ValIdle /\ CliInit /\ IdleRest
ClientSpec == ClientInit /\ [][ClientNext]_vars

\* compute_conservation_scores applied to one MSA path
ConsNext == ComputeScores /\ UNCHANGED <<drvVars, stVars, colVars, valVars,
                                         cliVars, batchVars, runVars, clsVars, parseVars, pipeVars, ovVars>>
ConservationInit == DrvInit /\ StInit /\ ColInit /\ ValIdle /\ CliIdle
                    /\ ConsInit /\ BatchIdle /\ RunIdle /\ OvIdle /\ PipeIdle /\ ParseIdle /\ ClsIdle
ConservationSpec == ConservationInit /\ [][ConsNext]_vars

\* two separate runs of compute_conservation_scores on one MSA path
RerunNext == ((ComputeScores /\ UNCHANGED runVars) \/ ComputeScoresRerun)
             /\ UNCHANGED <<drvVars, stVars, colVars, valVars, cliVars, batchVars, clsVars, parseVars, pipeVars, ovVars>>
RerunSpec == ConservationInit /\ [][RerunNext]_vars

\* compute_conservation_for_all_msas over one directory listing
BatchNext == (BatchFile \/ BatchFinish)
             /\ UNCHANGED <<drvVars, stVars, colVars, valVars, cliVars, consVars, runVars, clsVars, parseVars, pipeVars, ovVars>>
BatchSpecInit == DrvInit /\ StInit /\ ColInit /\ ValIdle /\ CliIdle
                 /\ ConsIdle /\ BatchInit /\ RunIdle /\ OvIdle /\ PipeIdle /\ ParseIdle /\ ClsIdle
BatchSpec == BatchSpecInit /\ [][BatchNext]_vars

\* _get_dynamic_variant_classifications applied to one variant table
ClassifyInit == DrvInit /\ StInit /\ ColInit /\ ValIdle /\ CliIdle
                /\ ConsIdle /\ BatchIdle /\ RunIdle /\ ClsInit /\ ParseIdle /\ PipeIdle /\ OvIdle
ClassifyNext == ClassifyVariants
                /\ UNCHANGED <<drvVars, stVars, colVars, valVars, cliVars,
                               consVars, batchVars, runVars, parseVars, pipeVars, ovVars>>
ClassifySpec == ClassifyInit /\ [][ClassifyNext]_vars

\* _parse_variant_positions applied to one variant table
ParseInitAll == DrvInit /\ StInit /\ ColInit /\ ValIdle /\ CliIdle
                /\ ConsIdle /\ BatchIdle /\ RunIdle /\ ClsIdle /\ ParseInit /\ PipeIdle /\ OvIdle
ParseNext == ParseVariantPositions
             /\ UNCHANGED <<drvVars, stVars, colVars, valVars, cliVars,
                            consVars, batchVars, runVars, clsVars, pipeVars, ovVars>>
ParseSpec == ParseInitAll /\ [][ParseNext]_vars

\* async_main over the per-gene files of one run
PipelineInit == DrvInit /\ StInit /\ ColInit /\ ValIdle /\ CliIdle
                /\ ConsIdle /\ BatchIdle /\ RunIdle /\ ClsIdle /\ ParseIdle /\ PipeInit /\ OvIdle
PipelineNext == PipeNext
                /\ UNCHANGED <<drvVars, stVars, colVars, valVars, cliVars,
                               consVars, batchVars, runVars, clsVars, parseVars, ovVars>>
PipelineSpec == PipelineInit /\ [][PipelineNext]_vars

\* _plot_variant_overlay_main applied to one variant table
OverlayInit == DrvInit /\ StInit /\ ColInit /\ ValIdle /\ CliIdle
               /\ ConsIdle /\ BatchIdle /\ RunIdle /\ ClsIdle /\ ParseIdle /\ PipeIdle
               /\ OvInit
OverlayNext == PlotVariantOverlay
               /\ UNCHANGED <<drvVars, stVars, colVars, valVars, cliVars,
                              consVars, batchVars, runVars, clsVars, parseVars, pipeVars>>
OverlaySpec == OverlayInit /\ [][OverlayNext]_vars

\* ------------------------------------------------------------------
\* Properties
\* ------------------------------------------------------------------

\* C1: the stages run in their fixed order; a stage among collection,
\* alignment and trees that returns False is the last stage invoked and
\* async_main returns 1.
C1_DriverAbort ==
    /\ invoked = SubSeq(StageOrder, 1, Len(invoked))
    /\ \A i \in 1..3 :
         res[StageOrder[i]] = "false" => (Len(invoked) = i /\ ret = 1)

C1_Witness == pc = "done" /\ res["msa"] = "false"

\* C2 (as stated): once collection, alignment and trees returned True,
\* async_main returns 0 whatever happens in the later stages.
C2_Original ==
    (pc = "done" /\ \A s \in FirstStages : res[s] = "true") => ret = 0

\* C3: cleanup closes every constructed client exactly once (and no other),
\* even when a close raises, and never changes the return value.
C3_CleanupOnce ==
    [][ /\ (pc' = "done" =>
              \A c \in Clients : closed'[c] = IF c \in constructed' THEN 1 ELSE 0)
        /\ (pc \in CleanupPcs => ret' = ret) ]_vars

C3_Witness == pc = "done" /\ constructed = Clients /\ "ebi" \in cleanupErrors

\* C4: check_status is called at most max_polls times per job; a job that
\* times out was polled exactly max_polls times and produced no artifact;
\* under fairness the stage returns.
C4_PollBound ==
    /\ [](/\ checkCalls <= MaxPolls(stg)
          /\ (outcome[gi] = "timeout" =>
                 checkCalls = MaxPolls(stg) /\ ~artifact[gi]))
    /\ <>(spc = "returned")

C4_Witness == stg = "tree" /\ outcome[gi] = "timeout"

\* C5: after ERROR or FAILURE the job is not polled, fetched or resubmitted
\* and its file fails; after FINISHED the result is fetched exactly once
\* and polling stops.
C5_TerminalFinal ==
    [][ gi' = gi =>
          /\ (status \in {"ERROR", "FAILURE"} =>
                /\ spc' \notin {"submit", "wait", "poll", "fetch"}
                /\ checkCalls' = checkCalls /\ getCalls' = getCalls
                /\ ~artifact'[gi] /\ outcome'[gi] = "error")
          /\ (status = "FINISHED" =>
                /\ spc' \notin {"submit", "wait", "poll"}
                /\ checkCalls' = checkCalls /\ getCalls' <= 1)
          /\ ((status = "FINISHED" /\ spc' \in {"endgene", "finish", "returned"})
                => getCalls' = 1) ]_vars

C5_Witness ==
    /\ spc = "endgene" /\ status \in {"ERROR", "FAILURE"} /\ stg = "tree"

\* C6: a status other than FINISHED, ERROR and FAILURE (None included)
\* makes the loop sleep, increment poll_count and poll again, without any
\* success or failure.
C6_UnknownRetried ==
    [][ (checkCalls' = checkCalls + 1 /\ lastPoll' \notin Terminal \cup {"RAISE"})
          => /\ pollCount' = pollCount + 1 /\ spc' = "poll"
             /\ outcome' = outcome /\ artifact' = artifact
             /\ successes' = successes ]_vars

C6_Witness == spc = "poll" /\ stg = "tree" /\ lastPoll = "WEIRD"

\* C7: a FINISHED job whose payload is None, empty or whitespace-only
\* fails: no artifact, success counter unchanged.
C7_BlankResultFails ==
    (spc \in {"endgene", "finish", "returned"} /\ lastResult \in {"blank", "empty", "none"})
        => (~artifact[gi] /\ outcome[gi] # "ok")

\* C8: a submission returning None or "" fails the file with no poll, no
\* fetch and no initial wait.
C8_FailedSubmit ==
    lastSubmit \in {"none", "empty"} =>
        /\ checkCalls = 0 /\ getCalls = 0 /\ ~slept
        /\ outcome[gi] = "nosubmit"

C8_Witness == lastSubmit = "empty" /\ stg = "tree" /\ spc = "endgene"

\* C9: every listed file is processed whatever happened to earlier ones,
\* and the stage returns True iff some file produced its artifact.
C9_Aggregation ==
    spc = "returned" =>
        /\ startOk => \A g \in 1..nFiles : outcome[g] # "pending"
        /\ stageRet = (\E g \in Genes : artifact[g])

C9_Witness ==
    /\ spc = "returned" /\ nFiles = 2
    /\ outcome[1] = "exception" /\ artifact[2]

\* C10: UniProt is called iff uniprot_id is present and non-empty; NCBI iff
\* entrez_protein_id is present and non-empty and UniProt gave nothing
\* (absent id or empty result); an NCBI sequence after an empty UniProt
\* result is used; an ortholog with no sequence is skipped and the loop
\* goes on.
C10_Fallback ==
    [][ (cgi' = cgi /\ coi' = coi + 1) =>
          /\ orth'.uniCalled = IdPresent(orth'.uni)
          /\ orth'.ncbiCalled = (IdPresent(orth'.ent) /\
                                 (~IdPresent(orth'.uni) \/ orth'.uniRes = "empty"))
          /\ ((orth'.uniRes \in {"none", "empty"} /\ orth'.ncbiRes = "seq") =>
                 acc' = Append(acc, <<cgi, coi', "ncbi">>) /\ succ' = succ + 1)
          /\ ((orth'.uniRes # "seq" /\ orth'.ncbiRes # "seq") =>
                 acc' = acc /\ succ' = succ /\ cpc' \in {"orth", "savegene"}) ]_vars

C10_Witness == orth.uniRes = "empty" /\ orth.ncbiRes = "seq" /\ cpc = "orth"

\* Sources of the retrieved orthologs of gene g, in ortholog-list order
RECURSIVE RetrievedParts(_, _, _)
RetrievedParts(g, gs, i) ==
    IF i > Len(gs) THEN <<>>
    ELSE (IF gs[i] # "none" THEN <<<<g, i, gs[i]>>>> ELSE <<>>)
         \o RetrievedParts(g, gs, i + 1)

\* C11: a gene with no retrieved sequence gets no file; otherwise its file
\* holds exactly the retrieved sequences in ortholog-list order (partial
\* retrieval included).
C11_GeneOutcome ==
    [][ (cpc = "savegene" /\ cpc' # "savegene") =>
          /\ (succ = 0 => written' = written /\ ~writeErr')
          /\ ((succ > 0 /\ ~writeErr') =>
                 written'[cgi] = RetrievedParts(cgi, got, 1)) ]_vars

C11_Witness ==
    \E g \in 1..Len(cfg.genes) :
        /\ written[g] # <<>>
        /\ Len(cfg.genes[g].orths) = 2 /\ Len(written[g]) = 1
        /\ written[g][1][2] = 2

\* C12: collection returns False for a missing/empty/invalid config, when
\* every gene fails, or on a write error; True only when some gene's file
\* was written and no write failed.
C12_CollectResult ==
    cpc = "returned" =>
        (colRet <=> ((\E g \in CGenes : written[g] # <<>>) /\ ~writeErr))

\* Genes whose orthologs all have blank ids
EmptyIdGene(gn) == \A k \in 1..Len(gn.orths) :
                      IdBlank(gn.orths[k].uni) /\ IdBlank(gn.orths[k].ent)
ExampleShape ==
    /\ Len(cfg.genes) = ExampleGenes
    /\ Cardinality({g \in 1..Len(cfg.genes) : EmptyIdGene(cfg.genes[g])}) = 1

\* C13 (original): for 3 genes where one fails because all its orthologs
\* have empty ids, collection returns True and the failed gene has no file.
C13_Original ==
    (cpc = "returned" /\ ExampleShape) =>
        /\ colRet
        /\ \A g \in 1..Len(cfg.genes) : EmptyIdGene(cfg.genes[g]) => written[g] = <<>>

\* C13 (amended): a 3-gene config in which a gene's orthologs all have empty
\* ids fails validation: False, no lookup and no file; a valid 3-gene config
\* where 2 genes retrieve sequences and 1 retrieves none returns True.
C13_Amended ==
    (cpc = "returned" /\ Len(cfg.genes) = ExampleGenes) =>
        /\ (\E g \in 1..Len(cfg.genes) : EmptyIdGene(cfg.genes[g]))
              => (~colRet /\ nLookups = 0 /\ \A g \in CGenes : written[g] = <<>>)
        /\ (/\ Validate(cfg) = "true" /\ ~writeErr
            /\ Cardinality({g \in 1..ExampleGenes : written[g] # <<>>}) = ExampleGenes - 1)
              => colRet

C13_Witness ==
    /\ cpc = "returned" /\ Len(cfg.genes) = ExampleGenes /\ colRet
    /\ Cardinality({g \in 1..ExampleGenes : written[g] # <<>>}) = ExampleGenes - 1

\* C14: a config that does not pass validate_genes_config makes collection
\* return False with no lookup and no file written.
C14_ValidationGate ==
    (cpc # "load" /\ Validate(cfg) # "true") =>
        /\ cpc = "returned" /\ ~colRet /\ nLookups = 0
        /\ \A g \in CGenes : written[g] = <<>>

C14_Witness ==
    /\ cpc = "returned" /\ cfg.kind = "dict" /\ Len(cfg.genes) > 0
    /\ Validate(cfg) = "false"

\* The validity conditions of the configuration format: a non-empty object;
\* every gene name a non-blank string; every ortholog list a non-empty list;
\* every ortholog an object with a non-blank string species and a non-blank
\* uniprot_id or entrez_protein_id
FormatValid(c) ==
    /\ c.kind = "dict" /\ Len(c.genes) > 0
    /\ \A i \in 1..Len(c.genes) :
         LET g == c.genes[i] IN
         /\ g.name = "ok" /\ g.isList /\ Len(g.orths) > 0
         /\ \A k \in 1..Len(g.orths) :
              LET o == g.orths[k] IN
              /\ o.isDict /\ o.species = "ok"
              /\ (o.uni = "id" \/ o.ent = "id")

\* C15: validate_genes_config returns True exactly for configurations
\* meeting the format conditions and False for every other configuration.
C15_ValidationRules ==
    vres # "unset" => vres = IF FormatValid(vcfg) THEN "true" ELSE "false"

\* Operations that convert every failure into "" or None
FailSoftFns == {"uniprot", "ncbi", "submit", "check", "result"}
\* The call's HTTP exchange failed (and no cached sequence was used)
HttpFailed(c) ==
    /\ c.http \in {"status", "request"}
    /\ ~(c.fn = "uniprot" /\ c.s3 = "enabled" /\ c.get = "hit")

\* C16: the UniProt and NCBI sequence fetches and the EBI submit, status
\* and result calls never raise for any transport, upstream or S3 cache
\* failure; they return "" or None instead, and an empty identifier returns
\* "" without any request.
C16_FailSoftClients ==
    (cout.kind # "unset" /\ call.fn \in FailSoftFns) =>
        /\ cout.kind = "value"
        /\ HttpFailed(call) => cout.val \in {"", "None"}
        /\ call.arg = "" => (cout.val = "" /\ cout.requests = 0)

\* C17: the UniProt variant fetch and the ClinVar gene-variant fetch never
\* raise on an upstream failure, and a failed variant fetch writes no CSV.
C17_VariantFetchNoRaise ==
    (cout.kind # "unset" /\ call.fn \in {"variants", "clinvar"}) =>
        /\ cout.kind = "value"
        /\ (call.fn = "variants" /\ (call.http # "ok" \/ call.shape = "list"))
              => ~cout.csv

\* C18: a CSV written for an alignment of length L >= 1 has the single
\* header row and exactly L data rows with Position 1, 2, ..., L in column
\* order.
C18_RowLayout ==
    cret = "path" =>
        /\ consOut.written /\ consOut.header = Header
        /\ Len(consOut.rows) = AlnLen(cfile)
        /\ \A i \in 1..Len(consOut.rows) : consOut.rows[i][1] = i

C18_Witness ==
    /\ cret = "path" /\ AlnLen(cfile) = 2 /\ Len(cfile.seqs) = 2

\* C19: an all-gap column has both entropies 0 and consensus "-"; a column
\* with one repeated non-gap residue (gaps allowed) has no-gap entropy 0 and
\* that residue as consensus.
C19_DegenerateColumns ==
    cret = "path" =>
        \A i \in 1..Len(consOut.rows) :
            LET col == Column(cfile.seqs, i)
                row == consOut.rows[i] IN
            /\ CharsOf(col) = {"-"} =>
                  (EntropyIsZero(row[2]) /\ EntropyIsZero(row[3]) /\ row[4] = "-")
            /\ \A r \in Symbols \ {"-"} :
                  CharsOf(col) \ {"-"} = {r} => (EntropyIsZero(row[3]) /\ row[4] = r)

C19_Witness ==
    /\ cret = "path"
    /\ \E i \in 1..AlnLen(cfile) : CharsOf(Column(cfile.seqs, i)) = {"-"}
    /\ \E i \in 1..AlnLen(cfile) : CharsOf(Column(cfile.seqs, i)) = {"A", "-"}

\* Files that are missing, empty, not FASTA, or whose records have unequal
\* or zero length
FailingFile(f) == ~AlignmentOk(f)

\* C20: such a file makes compute_conservation_scores return None with no
\* output, and in compute_conservation_for_all_msas every other file is
\* still processed.
C20_PerFileFailure ==
    /\ bret # "unset" => Len(bres) = Len(bfiles)
    /\ \A k \in 1..Len(bres) :
          FailingFile(bfiles[k]) => (bres[k].ret = "None" /\ ~bres[k].written)

C20_Witness ==
    /\ bret = "true" /\ Len(bfiles) = 2
    /\ FailingFile(bfiles[1]) /\ bres[2].ret = "path"


\* C21: two runs of compute_conservation_scores on the same alignment that
\* both write a CSV write identical content, consensus of tied columns
\* included.
C21_Deterministic ==
    (cret = "path" /\ cret2 = "path") => consOut2 = consOut


\* C22: compute_conservation_for_all_msas returns True only if every file
\* was processed successfully, and False if any file failed.
C22_AllOrNothing ==
    bret # "unset" =>
        (bret = "true" <=> \A k \in 1..Len(bres) : bres[k].ret = "path")


\* Some row at position p has a description triggering category c
RowTriggers(rows, p, c) ==
    \E k \in 1..Len(rows) :
        rows[k].pos = p /\ DescContainsAny(rows[k].desc, Triggers(c))

\* C23 (original): for every row, its position is in a category's set iff
\* its lowercased description contains one of that category's triggers.
C23_Original ==
    clsDone =>
        \A k \in 1..Len(vrows), c \in Categories :
            (vrows[k].pos \in vcls[c]) <=> DescContainsAny(vrows[k].desc, Triggers(c))

\* C23 (amended): a position is in a category's set iff some row at that
\* position has a description containing one of the category's triggers;
\* categories are decided independently.
C23_Amended ==
    clsDone =>
        \A p \in VariantPositions, c \in Categories :
            (p \in vcls[c]) <=> RowTriggers(vrows, p, c)

C23_Witness ==
    /\ clsDone /\ Len(vrows) = 2 /\ vrows[1].pos = vrows[2].pos
    /\ vrows[1].desc = {"Likely pathogenic", "Reduced function"}
    /\ vrows[2].desc = {"Likely benign"}


\* The position the format intends for a value: an integer for numeric
\* values and dict-like strings with an integer 'value'; "drop" for null,
\* non-numeric and non-finite values and other dict-like strings
IntendedKeep(v) == v.kind \in {"num", "frac", "dict", "dictstr"}
IntendedPosition(v) == v.n

\* C24: _parse_variant_positions never raises; it drops exactly the rows
\* whose position is unparseable and keeps the others, with their columns,
\* and an integer parsed_position.
C24_DropUnparseable ==
    pout # NoParse =>
        /\ pout.kind = "value"
        /\ Len(pout.rows) = Cardinality({k \in 1..Len(prows) :
                                           IntendedKeep(prows[k].pos)})
        /\ \A j \in 1..Len(pout.rows) :
              \E k \in 1..Len(prows) :
                  /\ pout.rows[j].id = prows[k].id
                  /\ pout.rows[j].pos = prows[k].pos
                  /\ IntendedKeep(prows[k].pos)
                  /\ pout.rows[j].parsed = IntendedPosition(prows[k].pos)


\* C27: when a job is about to be submitted, the job of every earlier file
\* has ended (finished, failed, timed out, or was never submitted) and no
\* later file has been started: at most one EBI job is outstanding.
C27_SequentialJobs ==
    spc = "submit" =>
        \A k \in 1..nFiles :
            k # gi => ((outcome[k] # "pending") <=> k < gi)

C27_Witness ==
    /\ spc = "submit" /\ gi = 2
    /\ outcome[1] \in {"ok", "timeout", "error"}

\* C25: every alignment submission for a gene happens after collection has
\* returned and while the gene's ortholog file exists; conservation scoring
\* starts only after every alignment and tree submission; an overlay is
\* plotted for a gene only while its conservation CSV exists.
C25_StageOrdering ==
    /\ \A i \in 1..Len(plog) :
         plog[i].kind = "align" =>
           /\ plog[i].ready
           /\ \E j \in 1..(i - 1) : plog[j].kind = "collected"
    /\ \A i, j \in 1..Len(plog) :
         (plog[i].kind = "cons" /\ plog[j].kind \in {"align", "tree"}) => j < i
    /\ \A i \in 1..Len(plog) : plog[i].kind = "overlay" => plog[i].ready

C25_Witness ==
    /\ ppc = "done"
    /\ \E i, j, k \in 1..Len(plog) :
         /\ plog[i].kind = "align" /\ plog[j].kind = "cons"
         /\ plog[k].kind = "overlay"

\* C28 (as stated): once step 3 has returned True, the genes steps 2 and 3
\* submitted jobs for are exactly the genes whose ortholog file step 1
\* wrote in this run.
C28_FreshInputs ==
    ppc \in {"cons", "varplots", "done"} => (alnSub = wNow /\ treeSub = wNow)

\* C26 (as stated): after the overlay is drawn, a position classified both
\* loss-of-function and likely pathogenic is in neither the likely-pathogenic
\* tier nor the regular tier.
C26_LofPrecedence ==
    ovDone =>
        \A p \in ovtiers.lof \cap ovtiers.path :
            p \notin ovtiers.lpTier /\ p \notin ovtiers.regular

\* C29 (as stated): for an ortholog whose entrez_protein_id is present and
\* non-empty, the NCBI lookup is called whenever the UniProt step produced
\* no sequence, including when the UniProt lookup raised.
C29_FallbackOnRaise ==
    (IdPresent(orth.ent) /\ orth.uniRes # "seq") => orth.ncbiCalled

\* C30 (as stated): for every dict-shaped configuration,
\* validate_genes_config returns True or False and does not raise.
C30_ValidationTotal ==
    (vres # "unset" /\ vcfg.kind = "dict") => vres \in {"true", "false"}

====
